---- MODULE Spec2Model ----
(***************************************************************************)
(* markdown-task-aggregator (src/main.go): scan a directory tree for       *)
(* markdown files, extract the checkbox lines, sort them by date and       *)
(* write one report.                                                       *)
(*                                                                         *)
(* A string is a sequence of one-character strings; a file's content and   *)
(* the rendered report are sequences of lines (every chunk the program     *)
(* writes ends in a newline, and bufio.ScanLines hands the scanner the     *)
(* lines without it).  A *time.Time is <<>> (nil) or <<t>>.  A time.Time   *)
(* is [day, sec, utc]: the day number since 1970-01-01 (UTC), the second   *)
(* of that day, and whether its location is UTC (time.Parse) or Local      *)
(* (time.Unix).                                                            *)
(***************************************************************************)
EXTENDS Integers, Sequences, FiniteSets, TLC

VARIABLES
    fs,             \* the tree under rootPath: the root's listing (ReadDir order)
    tz,             \* the zone of time.Local: seconds east of UTC
    outputFilename, \* main: *outputFilename, the value of the -o flag
    pc,             \* where the run is
    run,            \* how many times the tool has been started
    paths,          \* main: the value of markdownFilePaths(rootPath)
    fileIdx,        \* main: the position of the range loop over paths
    tasks,          \* main: tasks
    date,           \* findTasks: date (*time.Time)
    lastHeader,     \* findTasks: lastHeader
    lineIdx,        \* findTasks: lines the scanner has handed out
    found,          \* findTasks: tasks
    task,           \* findTasks: task, isTask of the last line (<<>> when !isTask)
    written         \* the document each run's writeToFile wrote, in run order

vars == <<fs, tz, outputFilename, pc, run, paths, fileIdx, tasks, date,
          lastHeader, lineIdx, found, task, written>>

-----------------------------------------------------------------------------
(* characters *)

Digits == <<"0", "1", "2", "3", "4", "5", "6", "7", "8", "9">>

Lower == <<"a", "b", "c", "d", "e", "f", "g", "h", "i", "j", "k", "l", "m",
           "n", "o", "p", "q", "r", "s", "t", "u", "v", "w", "x", "y", "z">>

Upper == <<"A", "B", "C", "D", "E", "F", "G", "H", "I", "J", "K", "L", "M",
           "N", "O", "P", "Q", "R", "S", "T", "U", "V", "W", "X", "Y", "Z">>

Range(s) == {s[i] : i \in 1..Len(s)}

IndexIn(s, c) == CHOOSE i \in 1..Len(s) : s[i] = c

isDigit(c) == c \in Range(Digits)

isLetter(c) == c \in Range(Lower) \cup Range(Upper)

\* the members of the regexp class \s that a line handed out by ScanLines
\* or a file name can hold here
isSpace(c) == c \in {" ", "\t"}

toLower(c) == IF c \in Range(Upper) THEN Lower[IndexIn(Upper, c)] ELSE c

\* the byte order of the characters used in file names
ByteOrder == <<"-", ".", "/">> \o Digits \o Upper \o Lower

Ord(c) == IndexIn(ByteOrder, c)

RECURSIVE StrLess(_, _)
StrLess(a, b) ==
    IF b = <<>> THEN FALSE
    ELSE IF a = <<>> THEN TRUE
    ELSE IF Head(a) # Head(b) THEN Ord(Head(a)) < Ord(Head(b))
    ELSE StrLess(Tail(a), Tail(b))

\* the first position >= i of s that is past a run of \s (of #)
RECURSIVE SkipSpace(_, _)
SkipSpace(s, i) ==
    IF i <= Len(s) /\ isSpace(s[i]) THEN SkipSpace(s, i + 1) ELSE i

RECURSIVE SkipHash(_, _)
SkipHash(s, i) ==
    IF i <= Len(s) /\ s[i] = "#" THEN SkipHash(s, i + 1) ELSE i

-----------------------------------------------------------------------------
(* package time *)

isLeap(y) == y % 4 = 0 /\ (y % 100 # 0 \/ y % 400 = 0)

daysIn(m, y) ==
    IF m = 2 THEN (IF isLeap(y) THEN 29 ELSE 28)
    ELSE IF m \in {4, 6, 9, 11} THEN 30 ELSE 31

\* the day number of the civil date y-m-d (days since 1970-01-01)
DaysFromCivil(y, m, d) ==
    LET yy  == IF m <= 2 THEN y - 1 ELSE y
        era == yy \div 400
        yoe == yy - era * 400
        mp  == IF m > 2 THEN m - 3 ELSE m + 9
        doy == (153 * mp + 2) \div 5 + d - 1
        doe == yoe * 365 + yoe \div 4 - yoe \div 100 + doy
    IN  era * 146097 + doe - 719468

\* the civil date <<y, m, d>> of a day number
CivilFromDays(n) ==
    LET z   == n + 719468
        era == z \div 146097
        doe == z - era * 146097
        yoe == (doe - doe \div 1460 + doe \div 36524 - doe \div 146096) \div 365
        doy == doe - (365 * yoe + yoe \div 4 - yoe \div 100)
        mp  == (5 * doy + 2) \div 153
        d   == doy - (153 * mp + 2) \div 5 + 1
        m   == IF mp < 10 THEN mp + 3 ELSE mp - 9
        y   == yoe + era * 400 + (IF m <= 2 THEN 1 ELSE 0)
    IN  <<y, m, d>>

\* time.Time{}: January 1, year 1, 00:00:00 UTC
ZeroTime == [day |-> DaysFromCivil(1, 1, 1), sec |-> 0, utc |-> TRUE]

IsZero(t) == t.day = ZeroTime.day /\ t.sec = 0

\* t.Unix() < u.Unix(), with Unix() = day * 86400 + sec and 0 <= sec < 86400
UnixLess(t, u) == t.day < u.day \/ (t.day = u.day /\ t.sec < u.sec)

\* time.Unix(sec, nsec): the instant, in time.Local
timeUnix(day, sec) == [day |-> day, sec |-> sec, utc |-> FALSE]

Num(s) == IF s = <<>> THEN 0
          ELSE LET RECURSIVE N(_, _)
                   N(i, acc) == IF i > Len(s) THEN acc
                                ELSE N(i + 1, acc * 10 + (IndexIn(Digits, s[i]) - 1))
               IN  N(1, 0)

\* time.Parse(yearMonthDayLayout, s) for an s that matched \d{4}-\d{2}-\d{2}:
\* <<>> is the error (month or day out of range), else <<t>>, t in UTC
timeParse(s) ==
    LET y == Num(SubSeq(s, 1, 4))
        m == Num(SubSeq(s, 6, 7))
        d == Num(SubSeq(s, 9, 10))
    IN  IF m < 1 \/ m > 12 \/ d < 1 \/ d > daysIn(m, y) THEN <<>>
        ELSE <<[day |-> DaysFromCivil(y, m, d), sec |-> 0, utc |-> TRUE]>>

Pad(n, w) ==
    LET RECURSIVE P(_, _)
        P(k, v) == IF k = 0 THEN <<>> ELSE Append(P(k - 1, v \div 10), Digits[(v % 10) + 1])
    IN  P(w, n)

\* the civil date t shows in its own location
CivilOf(t) ==
    CivilFromDays(IF t.utc THEN t.day ELSE t.day + ((t.sec + tz) \div 86400))

\* t.Format(yearMonthDayLayout)
Format(t) ==
    LET c == CivilOf(t)
    IN  Pad(c[1], 4) \o <<"-">> \o Pad(c[2], 2) \o <<"-">> \o Pad(c[3], 2)

-----------------------------------------------------------------------------
(* package regexp, for the patterns of the const block *)

completeTaskPattern     == "(?i)^\\s*[-|+|\\*]?\\s*\\[x\\]"
datePattern             == "^(\\d{4}-\\d{2}-\\d{2})"
dateHeaderPattern       == "^\\#+\\s+(\\d{4}-\\d{2}-\\d{2})"
headerPattern           == "^\\s*\\#+\\s+"
incompleteTaskPattern   == "^\\s*[-|+|\\*]?\\s*\\[\\s+\\]"
markdownFilenamePattern == "(?i).md$"

defaultOutputFilename == <<"T", "A", "S", "K", "S", ".", "m", "d">>

rootPath == <<".">>

At(s, i) == IF i >= 1 /\ i <= Len(s) THEN s[i] ELSE ""

\* \d{4}-\d{2}-\d{2} at position i of s
DateShapeAt(s, i) ==
    /\ i + 9 <= Len(s)
    /\ \A k \in {0, 1, 2, 3, 5, 6, 8, 9} : isDigit(s[i + k])
    /\ s[i + 4] = "-"
    /\ s[i + 7] = "-"

\* the character class [-|+|\*]
isBullet(c) == c \in {"-", "|", "+", "*"}

\* the position of the [ that ^\s*[-|+|\*]?\s* leads to (the classes \s, the
\* bullets and [ are disjoint, so the greedy match is the only one)
BoxStart(s) ==
    LET i == SkipSpace(s, 1)
        j == IF isBullet(At(s, i)) THEN i + 1 ELSE i
    IN  SkipSpace(s, j)

\* regexp.MatchString(pattern, s)
MatchString(pattern, s) ==
    CASE pattern = completeTaskPattern ->
            LET k == BoxStart(s)
            IN  At(s, k) = "[" /\ toLower(At(s, k + 1)) = "x" /\ At(s, k + 2) = "]"
      [] pattern = incompleteTaskPattern ->
            LET k == BoxStart(s)
                e == SkipSpace(s, k + 1)
            IN  At(s, k) = "[" /\ e > k + 1 /\ At(s, e) = "]"
      [] pattern = headerPattern ->
            LET i == SkipSpace(s, 1)
                h == SkipHash(s, i)
            IN  h > i /\ SkipSpace(s, h) > h
      [] pattern = markdownFilenamePattern ->
            LET n == Len(s)
            IN  n >= 3 /\ toLower(s[n - 1]) = "m" /\ toLower(s[n]) = "d"

\* regexp.MustCompile(pattern).FindSubmatch(text), without match[0]: <<>> is
\* no match, else <<the text of group 1>>
FindSubmatch(pattern, text) ==
    CASE pattern = datePattern ->
            IF DateShapeAt(text, 1) THEN <<SubSeq(text, 1, 10)>> ELSE <<>>
      [] pattern = dateHeaderPattern ->
            LET h == SkipHash(text, 1)
                w == SkipSpace(text, h)
            IN  IF h > 1 /\ w > h /\ DateShapeAt(text, w)
                THEN <<SubSeq(text, w, w + 9)>> ELSE <<>>

-----------------------------------------------------------------------------
(* package strings *)

\* strings.TrimLeft(s, cutset)
RECURSIVE TrimLeft(_, _)
TrimLeft(s, cutset) ==
    IF s # <<>> /\ Head(s) \in cutset THEN TrimLeft(Tail(s), cutset) ELSE s

RECURSIVE TrimRightSpace(_)
TrimRightSpace(s) ==
    IF s # <<>> /\ isSpace(s[Len(s)]) THEN TrimRightSpace(SubSeq(s, 1, Len(s) - 1)) ELSE s

\* strings.TrimSpace(s)
TrimSpace(s) == TrimRightSpace(TrimLeft(s, {" ", "\t"}))

\* strings.Index(s, c) + 1: the first position of c in s, 0 when there is none
Index(s, c) ==
    IF c \in Range(s) THEN CHOOSE i \in 1..Len(s) : s[i] = c /\ \A k \in 1..(i - 1) : s[k] # c
    ELSE 0

\* strings.FieldsFunc(s, f) for taskPath's f: the maximal runs of letters and digits
RECURSIVE FieldsFunc(_)
FieldsFunc(s) ==
    LET f(c) == ~isLetter(c) /\ ~isDigit(c)
        RECURSIVE FieldEnd(_)
        FieldEnd(i) == IF i <= Len(s) /\ ~f(s[i]) THEN FieldEnd(i + 1) ELSE i
    IN  IF s = <<>> THEN <<>>
        ELSE IF f(Head(s)) THEN FieldsFunc(Tail(s))
        ELSE <<SubSeq(s, 1, FieldEnd(1) - 1)>> \o FieldsFunc(SubSeq(s, FieldEnd(1), Len(s)))

\* strings.Join(elems, sep)
RECURSIVE Join(_, _)
Join(elems, sep) ==
    IF elems = <<>> THEN <<>>
    ELSE IF Len(elems) = 1 THEN elems[1]
    ELSE elems[1] \o sep \o Join(Tail(elems), sep)

\* strings.Split(s, "/")
RECURSIVE Split(_)
Split(s) ==
    LET p == Index(s, "/")
    IN  IF p = 0 THEN <<s>>
        ELSE <<SubSeq(s, 1, p - 1)>> \o Split(SubSeq(s, p + 1, Len(s)))

-----------------------------------------------------------------------------
(* the file system.  An entry of a listing is                              *)
(*   [name, isDir, sys, access, lines, children]:                          *)
(* sys is <<>> when file.Sys() is no *syscall.Stat_t, else <<b>> with b    *)
(* the Birthtimespec as [day, sec]; access is whether the entry can be     *)
(* opened (listed, for a directory); lines is a file's content; children   *)
(* is a directory's listing.  A listing is sorted by name, as              *)
(* ioutil.ReadDir returns it.                                              *)

\* path.Join(dirPath, filename), for a clean dirPath and a plain name
pathJoin(dirPath, filename) ==
    IF dirPath = rootPath THEN filename ELSE dirPath \o <<"/">> \o filename

RECURSIVE Walk(_, _)
Walk(listing, names) ==
    LET hit == {i \in 1..Len(listing) : listing[i].name = Head(names)}
    IN  IF hit = {} THEN <<>>
        ELSE LET e == listing[CHOOSE i \in hit : TRUE]
             IN  IF Len(names) = 1 THEN <<e>>
                 ELSE IF e.isDir THEN Walk(e.children, Tail(names)) ELSE <<>>

\* the entry at a path below rootPath: <<>> when there is none
Stat(path) == Walk(fs, Split(path))

\* ioutil.ReadDir(dirPath): the listing (files), for a directory that can be listed
ReadDir(dirPath) == IF dirPath = rootPath THEN fs ELSE Stat(dirPath)[1].children

\* ioutil.ReadDir returns an error somewhere below the listing: log.Fatal
RECURSIVE ReadDirFails(_)
ReadDirFails(listing) ==
    \E i \in 1..Len(listing) :
        /\ listing[i].isDir
        /\ (~listing[i].access \/ ReadDirFails(listing[i].children))

-----------------------------------------------------------------------------
(* src/main.go *)

\* parseDate without its check of err: a date that fails to parse comes
\* back as &parsedDate, the zero time
parseDateDroppingErr(pattern, text, lastDate) ==
    LET match == FindSubmatch(pattern, text)
    IN  IF Len(match) = 1
        THEN LET parsedDate == timeParse(match[1])
             IN  IF parsedDate = <<>> THEN <<ZeroTime>> ELSE parsedDate
        ELSE lastDate

parseDate(pattern, text, lastDate) ==
    LET match == FindSubmatch(pattern, text)
    IN  IF Len(match) = 1
        THEN LET parsedDate == timeParse(match[1])
             IN  IF parsedDate = <<>> THEN lastDate ELSE parsedDate
        ELSE lastDate

parseLastHeader(line, lastHeaderArg) ==
    IF MatchString(headerPattern, line) THEN TrimLeft(line, {"#", " "})
    ELSE lastHeaderArg

parseDateFromFile(file) ==
    LET result == parseDate(datePattern, file.name, <<>>)
    IN  IF result # <<>> THEN result
        ELSE IF file.sys # <<>> THEN <<timeUnix(file.sys[1].day, file.sys[1].sec)>>
        ELSE <<>>

\* parseTask: <<>> is (nil, false), <<t>> is (&t, true)
parseTask(dateArg, lastHeaderArg, filePath, line) ==
    LET completeTask   == MatchString(completeTaskPattern, line)
        incompleteTask == MatchString(incompleteTaskPattern, line)
    IN  IF completeTask \/ incompleteTask
        THEN <<[Complete       |-> completeTask,
                Date           |-> dateArg,
                FilePath       |-> filePath,
                PreviousHeader |-> lastHeaderArg,
                Text           |-> TrimSpace(SubSeq(line, Index(line, "]") + 1, Len(line)))]>>
        ELSE <<>>

\* markdownFilePaths(dirPath), where no ReadDir below dirPath fails
RECURSIVE markdownFilePaths(_)
markdownFilePaths(dirPath) ==
    LET files == ReadDir(dirPath)
        RECURSIVE Loop(_)
        Loop(i) ==
            IF i > Len(files) THEN <<>>
            ELSE LET file     == files[i]
                     d        == parseDateFromFile(file)
                     filename == file.name
                     filePath == pathJoin(dirPath, filename)
                 IN  (IF file.isDir THEN markdownFilePaths(filePath)
                      ELSE IF MatchString(markdownFilenamePattern, filename)
                           THEN <<[Date |-> d, Name |-> filename, Path |-> filePath]>>
                           ELSE <<>>) \o Loop(i + 1)
    IN  Loop(1)

\* the comparator main hands to sort.SliceStable
less(a, b) == UnixLess(a.Date, b.Date)

\* sort.SliceStable(tasks, less): the one stable arrangement
RECURSIVE SliceStable(_)
SliceStable(ts) ==
    IF ts = <<>> THEN <<>>
    ELSE LET n    == Len(ts)
             done == SliceStable(SubSeq(ts, 1, n - 1))
             x    == ts[n]
             \* x goes behind every element it is not less than
             keep == {i \in 1..(n - 1) : \A k \in 1..i : ~less(x, done[k])}
             at   == IF keep = {} THEN 0 ELSE CHOOSE i \in keep : \A k \in keep : k <= i
         IN  SubSeq(done, 1, at) \o <<x>> \o SubSeq(done, at + 1, n - 1)

completedCount(ts) == Cardinality({i \in 1..Len(ts) : ts[i].Complete})

taskPath(filePath, lastHeaderArg) ==
    IF lastHeaderArg # <<>>
    THEN filePath \o <<"#">> \o Join(FieldsFunc(lastHeaderArg), <<"-">>)
    ELSE filePath

\* the line fmt.Sprintf("- [%s] [%s](%s)\n", ...) adds for one task
TaskLine(t) ==
    <<"-", " ", "[", (IF t.Complete THEN "x" ELSE " "), "]", " ", "[">>
        \o t.Text \o <<"]", "(">> \o taskPath(t.FilePath, t.PreviousHeader) \o <<")">>

\* tasks.String(), as the lines of the document
String(ts) ==
    LET RECURSIVE Loop(_, _, _)
        Loop(i, lastDate, out) ==
            IF i > Len(ts) THEN out
            ELSE LET t      == ts[i]
                     newDay == Format(t.Date) # Format(lastDate)
                     sep    == IF newDay /\ ~IsZero(lastDate) THEN <<<<>>>> ELSE <<>>
                     head   == IF newDay
                               THEN <<<<"#", " ">> \o Format(t.Date), <<>>>>
                               ELSE <<>>
                 IN  Loop(i + 1,
                          IF newDay THEN t.Date ELSE lastDate,
                          out \o sep \o head \o <<TaskLine(t)>>)
    IN  Loop(1, ZeroTime, <<>>)

-----------------------------------------------------------------------------
(* the inputs *)

\* lines of a scanned file
MaxLines == 3

\* files of a tree of dated notes
MaxFiles == 3

\* entries of the root of a mixed tree
MaxEntries == 3

\* starts of the tool
MaxRuns == 2

RECURSIVE SeqsUpTo(_, _)
SeqsUpTo(S, n) ==
    IF n = 0 THEN {<<>>}
    ELSE LET shorter == SeqsUpTo(S, n - 1)
         IN  shorter \cup {Append(q, x) : q \in {r \in shorter : Len(r) = n - 1}, x \in S}

File(name, sys, access, lines) ==
    [name |-> name, isDir |-> FALSE, sys |-> sys, access |-> access,
     lines |-> lines, children |-> <<>>]

Dir(name, access, children) ==
    [name |-> name, isDir |-> TRUE, sys |-> <<>>, access |-> access,
     lines |-> <<>>, children |-> children]

\* birth times: 2023-01-01 20:00:00 and 2023-01-02 02:00:00 UTC
Births ==
    {[day |-> DaysFromCivil(2023, 1, 1), sec |-> 72000],
     [day |-> DaysFromCivil(2023, 1, 2), sec |-> 7200]}

Birth1 == [day |-> DaysFromCivil(2023, 1, 1), sec |-> 72000]

\* zones of time.Local: UTC-5, UTC, UTC+2
Zones == {0 - 18000, 0, 7200}

L_date      == <<"#", " ", "2", "0", "2", "3", "-", "0", "1", "-", "0", "2">>
L_date3     == <<"#", "#", " ", "2", "0", "2", "3", "-", "0", "1", "-", "0", "3", " ", "n", "o", "t", "e", "s">>
L_baddate   == <<"#", " ", "2", "0", "2", "3", "-", "0", "2", "-", "3", "0">>
L_zerodate  == <<"#", " ", "0", "0", "0", "1", "-", "0", "1", "-", "0", "1">>
L_nospace   == <<"#", "2", "0", "2", "3", "-", "0", "1", "-", "0", "4">>
L_header    == <<"#", "#", " ", "F", "o", "o", " ", "b", "a", "r">>
L_tabheader == <<"#", "\t", "F", "o", "o">>
L_indented  == <<" ", " ", "#", " ", "F", "o", "o">>
L_twohash   == <<"#", " ", "#", " ", "F", "o", "o">>
L_done      == <<"-", " ", "[", "x", "]", " ", "a">>
L_open      == <<"-", " ", "[", " ", "]", " ", "b">>
L_star      == <<"*", " ", "[", "X", "]", " ", "c">>
L_plus      == <<"+", " ", "[", " ", " ", "]", " ", "d">>
L_bare      == <<"[", " ", "]", " ", "e">>
L_tabs      == <<"\t", "-", "\t", "[", "\t", "]", " ", "f">>
L_pipe      == <<"|", "[", "x", "]", " ", "g">>
L_empty     == <<"-", " ", "[", "]", " ", "h">>
L_twice     == <<"-", "-", " ", "[", "x", "]", " ", "i">>
L_other     == <<"-", " ", "[", "y", "]", " ", "j">>
L_letter    == <<"a", " ", "[", "x", "]", " ", "k">>
L_text      == <<"c", "a", "l", "l", " ", "m", "o", "m">>
L_blank     == <<>>

\* the lines of the longer files: date headers, a header, tasks
ScanPool == {L_date, L_baddate, L_zerodate, L_header, L_done, L_open}

\* the line shapes of the patterns
ShapePool ==
    {L_date, L_date3, L_baddate, L_zerodate, L_nospace, L_header, L_tabheader,
     L_indented, L_twohash, L_done, L_open, L_star, L_plus, L_bare, L_tabs,
     L_pipe, L_empty, L_twice, L_other, L_letter, L_text, L_blank}

N_a      == <<"a", ".", "m", "d">>
N_dated  == <<"2", "0", "2", "3", "-", "0", "1", "-", "0", "5", ".", "m", "d">>
N_caps   == <<"N", ".", "M", "D">>
N_tasks  == <<"T", "A", "S", "K", "S", ".", "m", "d">>
N_x      == <<"X", ".", "m", "d">>
N_amd    == <<"n", "o", "t", "e", "s", "m", "d">>
N_md     == <<"m", "d">>
N_txt    == <<"b", ".", "t", "x", "t">>
N_locked == <<"l", "o", "c", "k", "e", "d", ".", "m", "d">>
N_sub    == <<"s", "u", "b">>
N_deep   == <<"d", "e", "e", "p">>
N_out    == <<"o", "u", "t", ".", "t", "x", "t">>

\* the name of the k-th file of a tree of dated notes: a.md, b.md, ...
NoteName(k) == <<Lower[k]>> \o <<".", "m", "d">>

-----------------------------------------------------------------------------
(* the runs of the program *)

\* os.Create(outputFilename) fails: the name is a directory's, or a file's
\* that cannot be opened
CreateFails ==
    LET e == Stat(outputFilename)
    IN  e # <<>> /\ (e[1].isDir \/ ~e[1].access)

\* the instant os.Create gives a new file as its birth time
Now == [day |-> DaysFromCivil(2023, 1, 9), sec |-> 43200]

\* the root's listing after os.Create(outputFilename) and file.WriteString(doc)
Created(doc) ==
    LET hit == {i \in 1..Len(fs) : fs[i].name = outputFilename}
        new == [name |-> outputFilename, isDir |-> FALSE, sys |-> <<Now>>,
                access |-> TRUE, lines |-> doc, children |-> <<>>]
        k   == Cardinality({i \in 1..Len(fs) : StrLess(fs[i].name, outputFilename)})
    IN  IF hit # {}
        THEN [fs EXCEPT ![CHOOSE i \in hit : TRUE].lines = doc]
        ELSE SubSeq(fs, 1, k) \o <<new>> \o SubSeq(fs, k + 1, Len(fs))

\* main: markdownFilePaths(rootPath) returns
MainDiscover ==
    /\ pc = "main"
    /\ ~ReadDirFails(fs)
    /\ paths' = markdownFilePaths(rootPath)
    /\ fileIdx' = 1
    /\ tasks' = <<>>
    /\ pc' = "range"
    /\ UNCHANGED <<fs, tz, outputFilename, run, date, lastHeader, lineIdx, found,
                   task, written>>

\* markdownFilePaths: log.Fatal(err)
MainFatal ==
    /\ pc = "main"
    /\ ReadDirFails(fs)
    /\ pc' = "fatal"
    /\ UNCHANGED <<fs, tz, outputFilename, run, paths, fileIdx, tasks, date,
                   lastHeader, lineIdx, found, task, written>>

\* findTasks: file.Name == defaultOutputFilename
FindTasksSkip ==
    /\ pc = "range"
    /\ fileIdx <= Len(paths)
    /\ paths[fileIdx].Name = defaultOutputFilename
    /\ fileIdx' = fileIdx + 1
    /\ UNCHANGED <<fs, tz, outputFilename, pc, run, paths, tasks, date,
                   lastHeader, lineIdx, found, task, written>>

\* findTasks: os.Open returns an error
FindTasksOpenError ==
    /\ pc = "range"
    /\ fileIdx <= Len(paths)
    /\ paths[fileIdx].Name # defaultOutputFilename
    /\ ~Stat(paths[fileIdx].Path)[1].access
    /\ fileIdx' = fileIdx + 1
    /\ UNCHANGED <<fs, tz, outputFilename, pc, run, paths, tasks, date,
                   lastHeader, lineIdx, found, task, written>>

\* findTasks: the file is open, the scanner is set up
FindTasksOpen ==
    /\ pc = "range"
    /\ fileIdx <= Len(paths)
    /\ paths[fileIdx].Name # defaultOutputFilename
    /\ Stat(paths[fileIdx].Path)[1].access
    /\ date' = paths[fileIdx].Date
    /\ lastHeader' = <<>>
    /\ lineIdx' = 0
    /\ found' = <<>>
    /\ task' = <<>>
    /\ pc' = "scan"
    /\ UNCHANGED <<fs, tz, outputFilename, run, paths, fileIdx, tasks, written>>

\* the lines of the file findTasks is scanning
ScannedLines == Stat(paths[fileIdx].Path)[1].lines

\* findTasks: one turn of the loop over fileScanner.Scan()
ScanLine ==
    /\ pc = "scan"
    /\ lineIdx < Len(ScannedLines)
    /\ LET line == ScannedLines[lineIdx + 1]
           d    == parseDate(dateHeaderPattern, line, date)
           h    == parseLastHeader(line, lastHeader)
       IN  /\ d # <<>>
           /\ date' = d
           /\ lastHeader' = h
           /\ task' = parseTask(d[1], h, paths[fileIdx].Path, line)
           /\ found' = found \o task'
    /\ lineIdx' = lineIdx + 1
    /\ UNCHANGED <<fs, tz, outputFilename, pc, run, paths, fileIdx, tasks, written>>

\* findTasks: *date with date == nil, a nil pointer dereference
ScanLinePanic ==
    /\ pc = "scan"
    /\ lineIdx < Len(ScannedLines)
    /\ LET line == ScannedLines[lineIdx + 1]
       IN  /\ parseDate(dateHeaderPattern, line, date) = <<>>
           /\ date' = <<>>
           /\ lastHeader' = parseLastHeader(line, lastHeader)
    /\ lineIdx' = lineIdx + 1
    /\ pc' = "panic"
    /\ UNCHANGED <<fs, tz, outputFilename, run, paths, fileIdx, tasks, found,
                   task, written>>

\* findTasks returns; main appends its tasks
FindTasksReturn ==
    /\ pc = "scan"
    /\ lineIdx = Len(ScannedLines)
    /\ tasks' = tasks \o found
    /\ fileIdx' = fileIdx + 1
    /\ pc' = "range"
    /\ UNCHANGED <<fs, tz, outputFilename, run, paths, date, lastHeader, lineIdx,
                   found, task, written>>

\* main: sort.SliceStable
MainSort ==
    /\ pc = "range"
    /\ fileIdx > Len(paths)
    /\ tasks' = SliceStable(tasks)
    /\ pc' = "write"
    /\ UNCHANGED <<fs, tz, outputFilename, run, paths, fileIdx, date, lastHeader,
                   lineIdx, found, task, written>>

\* tasks.writeToFile(*outputFilename)
WriteToFile ==
    /\ pc = "write"
    /\ ~CreateFails
    /\ fs' = Created(String(tasks))
    /\ written' = Append(written, String(tasks))
    /\ pc' = "done"
    /\ UNCHANGED <<tz, outputFilename, run, paths, fileIdx, tasks, date,
                   lastHeader, lineIdx, found, task>>

\* writeToFile: os.Create returns an error, log.Println(err)
WriteToFileError ==
    /\ pc = "write"
    /\ CreateFails
    /\ pc' = "done"
    /\ UNCHANGED <<fs, tz, outputFilename, run, paths, fileIdx, tasks, date,
                   lastHeader, lineIdx, found, task, written>>

\* the tool is started again, on the tree as the last run left it
Rerun ==
    /\ pc = "done"
    /\ run < MaxRuns
    /\ run' = run + 1
    /\ pc' = "main"
    /\ paths' = <<>>
    /\ fileIdx' = 0
    /\ tasks' = <<>>
    /\ date' = <<>>
    /\ lastHeader' = <<>>
    /\ lineIdx' = 0
    /\ found' = <<>>
    /\ task' = <<>>
    /\ UNCHANGED <<fs, tz, outputFilename, written>>

Next ==
    \/ MainDiscover
    \/ MainFatal
    \/ FindTasksSkip
    \/ FindTasksOpenError
    \/ FindTasksOpen
    \/ ScanLine
    \/ ScanLinePanic
    \/ FindTasksReturn
    \/ MainSort
    \/ WriteToFile
    \/ WriteToFileError
    \/ Rerun

-----------------------------------------------------------------------------
(* the initial states: the tree the tool is started in, the zone, the flag *)

Locals ==
    /\ pc = "main"
    /\ run = 1
    /\ paths = <<>>
    /\ fileIdx = 0
    /\ tasks = <<>>
    /\ date = <<>>
    /\ lastHeader = <<>>
    /\ lineIdx = 0
    /\ found = <<>>
    /\ task = <<>>
    /\ written = <<>>

\* one file: without a date, with a birth time, with a date in its name
ScanFiles ==
    {[name |-> N_a, sys |-> <<>>], [name |-> N_a, sys |-> <<Birth1>>],
     [name |-> N_dated, sys |-> <<>>]}

ScanInputs ==
    (SeqsUpTo(ScanPool, MaxLines) \ {<<>>})
        \cup {<<l>> : l \in ShapePool}
        \cup {<<h, l>> : h \in ShapePool, l \in ShapePool}

\* a tree of one file to scan
InitScan ==
    /\ \E f \in ScanFiles, ls \in ScanInputs :
           fs = <<File(f.name, f.sys, TRUE, ls)>>
    /\ tz = 0
    /\ outputFilename = defaultOutputFilename
    /\ Locals

\* an earlier report
OldReport == <<<<"#", " ", "2", "0", "2", "3", "-", "0", "1", "-", "0", "2">>, <<>>, <<"-", " ", "[", "x", "]", " ", "[", "o", "l", "d", "]", "(", "a", ".", "m", "d", ")">>>>

\* the entries a mixed root is drawn from, in ReadDir's order
TreePool ==
    <<File(N_caps, <<Birth1>>, TRUE, <<L_date, L_open>>),
      File(N_tasks, <<Birth1>>, TRUE, OldReport),
      File(N_x, <<Birth1>>, TRUE, OldReport),
      File(N_a, <<Birth1>>, TRUE, <<L_done>>),
      File(N_txt, <<Birth1>>, TRUE, <<L_done>>),
      File(N_locked, <<Birth1>>, FALSE, <<L_done>>),
      File(N_md, <<Birth1>>, TRUE, <<L_done>>),
      File(N_amd, <<Birth1>>, TRUE, <<L_done>>),
      Dir(N_sub, TRUE,
          <<File(<<"c", ".", "m", "d">>, <<Birth1>>, TRUE, <<L_header, L_open>>),
            Dir(N_deep, TRUE, <<File(N_tasks, <<Birth1>>, TRUE, OldReport),
                                File(<<"d", ".", "m", "d">>, <<Birth1>>, TRUE, <<L_done>>)>>)>>),
      Dir(<<"v", "a", "u", "l", "t">>, FALSE, <<>>)>>

\* the values of -o
OutNames == {N_tasks, N_x, N_out, N_locked}

RECURSIVE Pick(_, _)
Pick(pool, S) ==
    IF pool = <<>> THEN <<>>
    ELSE (IF Len(pool) \in S THEN Pick(SubSeq(pool, 1, Len(pool) - 1), S) \o <<pool[Len(pool)]>>
          ELSE Pick(SubSeq(pool, 1, Len(pool) - 1), S))

\* a mixed tree and a value of -o
InitTree ==
    /\ \E S \in SUBSET (1..Len(TreePool)) :
           /\ Cardinality(S) <= MaxEntries
           /\ fs = Pick(TreePool, S)
    /\ tz = 0
    /\ outputFilename \in OutNames
    /\ Locals

\* what a dated note holds
NoteLines == {<<L_open>>, <<L_date, L_done>>, <<L_zerodate, L_open>>}

RECURSIVE Notes(_)
Notes(n) ==
    IF n = 0 THEN {<<>>}
    ELSE {Append(q, File(NoteName(n), <<b>>, TRUE, ls)) :
              q \in Notes(n - 1), b \in Births, ls \in NoteLines}

\* a tree of notes dated by birth time or header, and a zone
InitDates ==
    /\ \E n \in 1..MaxFiles : fs \in Notes(n)
    /\ tz \in Zones
    /\ outputFilename = defaultOutputFilename
    /\ Locals

Init == InitScan \/ InitTree \/ InitDates

Spec == Init /\ [][Next]_vars

-----------------------------------------------------------------------------
(* what the specification says, stated apart from the code above *)

\* y-m-d is a date of the calendar
IsCalendarDate(y, m, d) ==
    /\ m \in 1..12
    /\ d >= 1
    /\ d <= (CASE m \in {1, 3, 5, 7, 8, 10, 12} -> 31
               [] m \in {4, 6, 9, 11} -> 30
               [] OTHER -> IF y % 4 = 0 /\ (y % 100 # 0 \/ y % 400 = 0) THEN 29 ELSE 28)

\* the places p where a date can start in a line of h >= 1 # and then
\* w >= 1 whitespace characters (there is at most one)
DateStarts(l) ==
    {p \in 3..Len(l) :
        \E h \in 1..(p - 2) :
            /\ \A k \in 1..h : l[k] = "#"
            /\ \A k \in (h + 1)..(p - 1) : l[k] \in {" ", "\t"}}

\* the line is a date header that carries a date of the calendar
IsDateHeader(l) ==
    \E p \in DateStarts(l) :
        /\ DateShapeAt(l, p)
        /\ IsCalendarDate(Num(SubSeq(l, p, p + 3)), Num(SubSeq(l, p + 5, p + 6)),
                          Num(SubSeq(l, p + 8, p + 9)))

\* midnight UTC of the date a date header carries
HeaderDate(l) ==
    LET p == CHOOSE q \in DateStarts(l) : DateShapeAt(l, q)
    IN  [day |-> DaysFromCivil(Num(SubSeq(l, p, p + 3)), Num(SubSeq(l, p + 5, p + 6)),
                               Num(SubSeq(l, p + 8, p + 9))),
         sec |-> 0, utc |-> TRUE]

Max(S) == CHOOSE x \in S : \A y \in S : y <= x

\* the date context at line i of a file: the last date header at or above
\* it, else the file's inferred date
DateContext(ls, i, fileDate) ==
    LET hs == {j \in 1..i : IsDateHeader(ls[j])}
    IN  IF hs = {} THEN fileDate ELSE <<HeaderDate(ls[Max(hs)])>>

\* the lines up to line n that parseTask makes a Task of, in order
RECURSIVE TaskLines(_, _)
TaskLines(ls, n) ==
    IF n = 0 THEN <<>>
    ELSE TaskLines(ls, n - 1)
            \o (IF MatchString(completeTaskPattern, ls[n])
                   \/ MatchString(incompleteTaskPattern, ls[n])
                THEN <<n>> ELSE <<>>)

\* C6: within one scan of a file, the tasks found so far are those of the
\* task lines read so far, in order, and each carries the date of the last
\* well-formed date header at or above its line, or the file's inferred date
\* when there is none; a header whose digits are no calendar date changes
\* nothing.
C6_TaskDateIsLastDateHeader ==
    pc = "scan" =>
        LET at == TaskLines(ScannedLines, lineIdx)
        IN  /\ Len(found) = Len(at)
            /\ \A k \in 1..Len(at) :
                   <<found[k].Date>> =
                       DateContext(ScannedLines, at[k], paths[fileIdx].Date)

\* C6's case: a task under a malformed date header that follows a
\* well-formed one keeps the date of the well-formed one
C6_Witness ==
    /\ pc = "scan"
    /\ lineIdx = 3
    /\ ScannedLines[1] = L_date
    /\ ScannedLines[2] = L_baddate
    /\ task # <<>>
    /\ found # <<>>
    /\ found[Len(found)].Date = HeaderDate(L_date)
    /\ paths[fileIdx].Date # <<HeaderDate(L_date)>>

\* C1: a second run over the tree the first run left writes the document
\* the first run wrote, whatever the output file is called.
C1_SecondRunWritesTheSame ==
    (pc = "done" /\ run = 2 /\ Len(written) = 2) => written[2] = written[1]

\* C2: a task line read while there is no date context (the file has no
\* inferred date and no date header came yet) still yields a Task, with the
\* zero date, and the run does not crash.
C2_TaskWithoutDateContext ==
    ( /\ pc \in {"scan", "panic"}
      /\ lineIdx >= 1
      /\ TaskLines(ScannedLines, lineIdx) # TaskLines(ScannedLines, lineIdx - 1)
      /\ DateContext(ScannedLines, lineIdx, paths[fileIdx].Date) = <<>> )
    => (pc = "scan" /\ task # <<>> /\ task[1].Date = ZeroTime)

\* a is a day before b
DayBefore(a, b) ==
    LET x == CivilOf(a)
        y == CivilOf(b)
    IN  \/ x[1] < y[1]
        \/ (x[1] = y[1] /\ x[2] < y[2])
        \/ (x[1] = y[1] /\ x[2] = y[2] /\ x[3] < y[3])

\* the stable ascending arrangement by calendar day
RECURSIVE SortedByDay(_)
SortedByDay(ts) ==
    IF ts = <<>> THEN <<>>
    ELSE LET n    == Len(ts)
             done == SortedByDay(SubSeq(ts, 1, n - 1))
             x    == ts[n]
             keep == {i \in 0..(n - 1) : \A k \in 1..i : ~DayBefore(x.Date, done[k].Date)}
             at   == Max(keep)
         IN  SubSeq(done, 1, at) \o <<x>> \o SubSeq(done, at + 1, n - 1)

\* C3: main's sort leaves the tasks in the stable ascending order of their
\* calendar days: tasks of one day keep their discovery-then-scan order,
\* whatever their times of day.
C3_SortIsStableByDay ==
    [][(pc = "range" /\ pc' = "write") => tasks' = SortedByDay(tasks)]_vars

\* C4: of the markdown files found, exactly those not named as the
\* configured output file contribute their tasks.
C4_OnlyOutputFileExcluded ==
    pc = "write" =>
        \A i \in 1..Len(paths) :
            LET e == Stat(paths[i].Path)[1]
            IN  (\E k \in 1..Len(tasks) : tasks[k].FilePath = paths[i].Path)
                    <=> ( /\ paths[i].Name # outputFilename
                          /\ e.access
                          /\ TaskLines(e.lines, Len(e.lines)) # <<>> )

\* the places of the [ of a line of whitespace, at most one of - + *,
\* whitespace, and then [
BoxPlaces(l) ==
    {p \in 1..Len(l) :
        /\ l[p] = "["
        /\ \A k \in 1..(p - 1) : l[k] \in {" ", "\t", "-", "+", "*"}
        /\ Cardinality({k \in 1..(p - 1) : l[k] \in {"-", "+", "*"}}) <= 1}

IsCompleteShape(l) ==
    \E p \in BoxPlaces(l) : p + 2 <= Len(l) /\ l[p + 1] \in {"x", "X"} /\ l[p + 2] = "]"

IsIncompleteShape(l) ==
    \E p \in BoxPlaces(l) : \E q \in (p + 2)..Len(l) :
        l[q] = "]" /\ \A k \in (p + 1)..(q - 1) : l[k] \in {" ", "\t"}

\* C5: parseTask makes a complete Task of a line of the completed shape, an
\* incomplete Task of a line of the incomplete shape, and no Task of any
\* other line; no line has both shapes.
C5_ThreeOutcomes ==
    (pc = "scan" /\ lineIdx >= 1) =>
        LET l == ScannedLines[lineIdx]
        IN  /\ ~(IsCompleteShape(l) /\ IsIncompleteShape(l))
            /\ IsCompleteShape(l) => (task # <<>> /\ task[1].Complete)
            /\ IsIncompleteShape(l) => (task # <<>> /\ ~task[1].Complete)
            /\ (~IsCompleteShape(l) /\ ~IsIncompleteShape(l)) => task = <<>>

\* the document of a sorted task sequence: before each maximal run of tasks
\* of one formatted date its header line and a blank line, and a blank line
\* before every header but the first
RECURSIVE Document(_, _)
Document(ts, n) ==
    IF n = 0 THEN <<>>
    ELSE LET day    == Format(ts[n].Date)
             starts == n = 1 \/ Format(ts[n - 1].Date) # day
         IN  Document(ts, n - 1)
                \o (IF starts /\ n > 1 THEN <<<<>>>> ELSE <<>>)
                \o (IF starts THEN <<<<"#", " ">> \o day, <<>>>> ELSE <<>>)
                \o <<TaskLine(ts[n])>>

\* C7: the document Tasks.String builds gives every run of tasks of one
\* date its header, for every date a task can carry, the zero date too.
C7_EveryRunHasItsHeader ==
    (pc = "done" /\ Len(written) = run) => written[run] = Document(tasks, Len(tasks))

\* the paths of the files of a listing, at any depth, whose name ends in a
\* dot and md in either case
RECURSIVE DotMdFiles(_, _)
DotMdFiles(dirPath, listing) ==
    UNION {LET e == listing[i]
               n == Len(e.name)
           IN  IF e.isDir THEN DotMdFiles(pathJoin(dirPath, e.name), e.children)
               ELSE IF /\ n >= 3
                       /\ e.name[n - 2] = "."
                       /\ e.name[n - 1] \in {"m", "M"}
                       /\ e.name[n] \in {"d", "D"}
                    THEN {pathJoin(dirPath, e.name)}
                    ELSE {} : i \in 1..Len(listing)}

\* C8: markdownFilePaths returns exactly the files, at any depth, whose
\* name ends in .md in either case.
C8_ExactlyTheDotMdFiles ==
    (pc = "range" /\ fileIdx = 1) =>
        {paths[i].Path : i \in 1..Len(paths)} = DotMdFiles(rootPath, fs)

\* the line begins with one or more # and then whitespace
IsHeaderLine(l) == \E h \in 1..(Len(l) - 1) :
    (\A k \in 1..h : l[k] = "#") /\ l[h + 1] \in {" ", "\t"}

\* a header line without its leading # and the whitespace after them
HeaderText(l) ==
    LET h == Max({k \in 1..Len(l) : \A j \in 1..k : l[j] = "#"})
        w == Max({k \in h..Len(l) : \A j \in (h + 1)..k : l[j] \in {" ", "\t"}})
    IN  SubSeq(l, w + 1, Len(l))

\* the section header at line i of a file
SectionHeader(ls, i) ==
    LET hs == {j \in 1..i : IsHeaderLine(ls[j])}
    IN  IF hs = {} THEN <<>> ELSE HeaderText(ls[Max(hs)])

\* C9: within one scan the section header is the text of the last line at
\* or above that begins with # and whitespace, without those # and all the
\* whitespace after them; every Task carries it.
C9_SectionHeaderIsLastHeaderText ==
    (pc = "scan" /\ lineIdx >= 1) =>
        /\ lastHeader = SectionHeader(ScannedLines, lineIdx)
        /\ task # <<>> => task[1].PreviousHeader = SectionHeader(ScannedLines, lineIdx)

\* the header lines of a document
RECURSIVE HeaderLines(_)
HeaderLines(doc) ==
    IF doc = <<>> THEN <<>>
    ELSE (IF Head(doc) # <<>> /\ Head(Head(doc)) = "#" THEN <<Head(doc)>> ELSE <<>>)
            \o HeaderLines(Tail(doc))

\* C10: the dates on the header lines of a written report increase
\* strictly from top to bottom.
C10_HeaderDatesIncrease ==
    \A r \in 1..Len(written) :
        LET hs == HeaderLines(written[r])
        IN  \A i \in 1..(Len(hs) - 1) : StrLess(hs[i], hs[i + 1])

====
